---- MODULE Spec2Model ----
(***************************************************************************)
(* Model of two device-lifecycle protocols of the VMM:                     *)
(*   - the GIC lifecycle manager (arch/src/aarch64/gic/mod.rs):            *)
(*     create_gic, GICDevice::new, init_device, set_device_attribute,      *)
(*     finalize_device;                                                    *)
(*   - the virtio device activation protocol                               *)
(*     (devices/src/virtio/subscriber_device.rs): process_activate_event.  *)
(* The two protocols share no state; each has its own specification        *)
(* (Spec for the GIC, ActSpec for the activation protocol).                *)
(***************************************************************************)
EXTENDS Integers, Sequences, FiniteSets, TLC

(***************************************************************************)
(* Bounds of the model.                                                    *)
(***************************************************************************)
\* vcpu_count values handed to create_gic: 1..MaxVcpu
MaxVcpu == 2
\* kernel error numbers an ioctl may fail with: 1..MaxErrno
MaxErrno == 2
\* calls of process_activate_event explored in one behaviour
MaxCalls == 2
\* cap of the activation eventfd counter
MaxSignal == 1

(***************************************************************************)
(* GIC: constants of the two variants.                                     *)
(***************************************************************************)
Variants == {"GICv3", "GICv2"}

\* super::layout::IRQ_MAX, the architectural IRQ ceiling
IRQ_MAX == 128
\* the reserved low range: SGI (0-15) and PPI (16-31)
IRQ_BASE == 32

\* GICDevice::version(): the kernel device type of a variant
Version(v) == IF v = "GICv3" THEN "KVM_DEV_TYPE_ARM_VGIC_V3"
                             ELSE "KVM_DEV_TYPE_ARM_VGIC_V2"

\* GICDevice::fdt_compatibility()
FdtCompatibility(v) == IF v = "GICv3" THEN "arm,gic-v3" ELSE "arm,gic-400"

\* GICDevice::fdt_maint_irq()
FdtMaintIrq(v) == IF v = "GICv3" THEN 9 ELSE 8

\* the variant's init_device_attributes: the ordered region attributes,
\* distributor first, then the per-CPU region
DeviceAttributes(v) ==
    IF v = "GICv3" THEN << "V3_ADDR_TYPE_DIST", "V3_ADDR_TYPE_REDIST" >>
                   ELSE << "V2_ADDR_TYPE_DIST", "V2_ADDR_TYPE_CPU" >>

\* kernel error numbers; 0 stands for a successful ioctl
Errnos == 1..MaxErrno
KernelOutcomes == {0} \cup Errnos

NoError == [kind |-> "none", errno |-> 0, is_set |-> FALSE, group |-> "none"]
NoDevice == [variant |-> "none", fd |-> 0, vcpu_count |-> 0]

\* Error::CreateGIC(e)
CreateGIC(e) == [kind |-> "CreateGIC", errno |-> e, is_set |-> FALSE, group |-> "none"]

\* Error::DeviceAttribute(e, is_set, group)
DeviceAttribute(e, is_set, group) ==
    [kind |-> "DeviceAttribute", errno |-> e, is_set |-> is_set, group |-> group]

VARIABLES
    pc,          \* position of create_gic / GICDevice::new
    variant,     \* the variant whose new() is running (Self)
    vcpu_count,  \* argument of create_gic
    vgic_fd,     \* new(): the DeviceFd returned by init_device
    device,      \* new(): the boxed GIC device value
    attr_idx,    \* init_device_attributes: next region attribute to set
    new_result,  \* value returned by Self::new
    result,      \* value returned by create_gic
    live,        \* kernel device fds that are open
    created,     \* number of kernel devices created so far
    calls,       \* every kernel call issued, in order
    attempts,    \* variants whose new() was entered, in order
    attempt_err, \* per variant, the error its new() returned
    instantiated \* variants for which a GIC device value was built

gvars == << pc, variant, vcpu_count, vgic_fd, device, attr_idx, new_result,
            result, live, created, calls, attempts, attempt_err,
            instantiated >>

\* the variables of the device activation protocol
VARIABLES
    registry,        \* EventManager: fd -> subscriber handle (NoHandle: absent)
    evt,             \* per device, the counter of its activation eventfd
    interest,        \* per device, what interest_list() returns
    apc,             \* position inside process_activate_event
    self,            \* the device whose process_activate_event is running
    self_subscriber, \* local: the handle returned by the lookup
    idx,             \* local: position of the for loop in interest_list
    ncalls,          \* number of calls of process_activate_event so far
    log,             \* eventfd and registry operations of the current call
    reg_at_call,     \* the registry as it was when the current call began
    returned,        \* how the last call ended
    unregistered,    \* devices whose activation fd was unregistered with Ok
    refire,          \* the current call began after such an unregistration
    unreg_failed,    \* devices whose unregistration returned an error
    retry            \* the current call began after such a failure

avars == << registry, evt, interest, apc, self, self_subscriber, idx, ncalls,
            log, reg_at_call, returned, unregistered, refire, unreg_failed,
            retry >>

NoResult == [status |-> "none", device |-> NoDevice, error |-> NoError]
Ok(d) == [status |-> "Ok", device |-> d, error |-> NoError]
Err(e) == [status |-> "Err", device |-> NoDevice, error |-> e]

GicInit ==
    /\ pc = "idle"
    /\ variant = "none"
    /\ vcpu_count = 0
    /\ vgic_fd = 0
    /\ device = NoDevice
    /\ attr_idx = 0
    /\ new_result = NoResult
    /\ result = NoResult
    /\ live = {}
    /\ created = 0
    /\ calls = << >>
    /\ attempts = << >>
    /\ attempt_err = [v \in Variants |-> NoError]
    /\ instantiated = {}

\* the record of one kernel call
CreateCall(v, fd, k) ==
    [op |-> "create_device", variant |-> v, fd |-> fd, type |-> Version(v),
     group |-> "none", attr |-> "none", value |-> 0, flags |-> 0,
     ok |-> (k = 0), errno |-> k]
AttrCall(v, fd, group, attr, value, flags, k) ==
    [op |-> "set_device_attr", variant |-> v, fd |-> fd, type |-> Version(v),
     group |-> group, attr |-> attr, value |-> value, flags |-> flags,
     ok |-> (k = 0), errno |-> k]

\* variation: the error is built as for a get and without the failing group
SetDeviceAttribute_AsGet(group, k) ==
    IF k = 0 THEN Ok(NoDevice) ELSE Err(DeviceAttribute(k, FALSE, "none"))

\* set_device_attribute: the result for kernel outcome k
SetDeviceAttribute(group, k) ==
    IF k = 0 THEN Ok(NoDevice) ELSE Err(DeviceAttribute(k, TRUE, group))

\* the variant create_gic tries first
FirstVariant == "GICv3"
\* variation: the closure retries the first variant
FallbackVariant_Same == "GICv3"

\* the variant create_gic falls back to
FallbackVariant == "GICv2"

\* entering Self::new for variant v
EnterNew(v) ==
    /\ variant' = v
    /\ attempts' = Append(attempts, v)
    /\ vgic_fd' = 0
    /\ device' = NoDevice
    /\ attr_idx' = 0
    /\ new_result' = NoResult
    /\ pc' = "init_device"

\* create_gic(vm, vcpu_count): GICv3::new(vm, vcpu_count) is evaluated first
CreateGic ==
    /\ pc = "idle"
    /\ \E n \in 1..MaxVcpu : vcpu_count' = n
    /\ EnterNew(FirstVariant)
    /\ UNCHANGED << result, live, created, calls, attempt_err, instantiated >>
    /\ UNCHANGED avars

\* variation: the device fd of a failed attempt is kept open
NewFails_Leak(e) ==
    /\ new_result' = Err(e)
    /\ attempt_err' = [attempt_err EXCEPT ![variant] = e]
    /\ live' = live
    /\ device' = NoDevice
    /\ vgic_fd' = 0
    /\ pc' = "new_returned"

\* Self::new returns Err(e): the boxed device (if any) is dropped, which
\* closes its DeviceFd
NewFails(e) ==
    /\ new_result' = Err(e)
    /\ attempt_err' = [attempt_err EXCEPT ![variant] = e]
    /\ live' = live \ {vgic_fd}
    /\ device' = NoDevice
    /\ vgic_fd' = 0
    /\ pc' = "new_returned"

\* variation: a refused creation is not propagated, new() goes on with fd 0
InitDevice_NoCheck ==
    /\ pc = "init_device"
    /\ \E k \in KernelOutcomes :
        IF k = 0
        THEN /\ created' = created + 1
             /\ vgic_fd' = created + 1
             /\ live' = live \cup {created + 1}
             /\ calls' = Append(calls, CreateCall(variant, created + 1, k))
             /\ pc' = "create_device"
             /\ UNCHANGED << device, new_result, attempt_err >>
        ELSE /\ calls' = Append(calls, CreateCall(variant, 0, k))
             /\ pc' = "create_device"
             /\ UNCHANGED << created, vgic_fd, live, device, new_result,
                             attempt_err >>
    /\ UNCHANGED << variant, vcpu_count, attr_idx, result, attempts,
                    instantiated >>
    /\ UNCHANGED avars

\* new(): let vgic_fd = Self::init_device(vm)?;
InitDevice ==
    /\ pc = "init_device"
    /\ \E k \in KernelOutcomes :
        IF k = 0
        THEN /\ created' = created + 1
             /\ vgic_fd' = created + 1
             /\ live' = live \cup {created + 1}
             /\ calls' = Append(calls, CreateCall(variant, created + 1, k))
             /\ pc' = "create_device"
             /\ UNCHANGED << device, new_result, attempt_err >>
        ELSE /\ calls' = Append(calls, CreateCall(variant, 0, k))
             /\ NewFails(CreateGIC(k))
             /\ UNCHANGED created
    /\ UNCHANGED << variant, vcpu_count, attr_idx, result, attempts,
                    instantiated >>
    /\ UNCHANGED avars

\* variation: the device is built for a single vCPU
CreateDevice_OneVcpu ==
    /\ pc = "create_device"
    /\ device' = [variant |-> variant, fd |-> vgic_fd, vcpu_count |-> 1]
    /\ attr_idx' = 1
    /\ instantiated' = instantiated \cup {variant}
    /\ pc' = "init_device_attributes"
    /\ UNCHANGED << variant, vcpu_count, vgic_fd, new_result, result, live,
                    created, calls, attempts, attempt_err >>
    /\ UNCHANGED avars

\* new(): let device = Self::create_device(vgic_fd, vcpu_count);
CreateDevice ==
    /\ pc = "create_device"
    /\ device' = [variant |-> variant, fd |-> vgic_fd, vcpu_count |-> vcpu_count]
    /\ attr_idx' = 1
    /\ instantiated' = instantiated \cup {variant}
    /\ pc' = "init_device_attributes"
    /\ UNCHANGED << variant, vcpu_count, vgic_fd, new_result, result, live,
                    created, calls, attempts, attempt_err >>
    /\ UNCHANGED avars

\* new(): Self::init_device_attributes(device.as_ref())?;
\* one region attribute per step, in the variant's order
InitDeviceAttributes ==
    /\ pc = "init_device_attributes"
    /\ attr_idx <= Len(DeviceAttributes(variant))
    /\ \E k \in KernelOutcomes :
        LET r == SetDeviceAttribute("GRP_ADDR", k) IN
        /\ calls' = Append(calls, AttrCall(variant, device.fd, "GRP_ADDR",
                              DeviceAttributes(variant)[attr_idx], 0, 0, k))
        /\ IF r.status = "Ok"
           THEN /\ attr_idx' = attr_idx + 1
                /\ pc' = IF attr_idx = Len(DeviceAttributes(variant))
                            THEN "finalize_nr_irqs" ELSE "init_device_attributes"
                /\ UNCHANGED << device, vgic_fd, new_result, live, attempt_err >>
           ELSE /\ NewFails(r.error)
                /\ UNCHANGED attr_idx
    /\ UNCHANGED << variant, vcpu_count, result, created, attempts,
                    instantiated >>
    /\ UNCHANGED avars

\* variation: the reserved low range is subtracted from the ceiling
NrIrqs_Reduced == IRQ_MAX - IRQ_BASE

\* finalize_device: let nr_irqs: u32 = super::layout::IRQ_MAX;
NrIrqs == IRQ_MAX

\* variation: the result of the IRQ-count call is not propagated with `?`
FinalizeNrIrqs_NoCheck ==
    /\ pc = "finalize_nr_irqs"
    /\ \E k \in KernelOutcomes :
        /\ calls' = Append(calls, AttrCall(variant, device.fd, "GRP_NR_IRQS",
                              "0", NrIrqs, 0, k))
        /\ pc' = "finalize_ctrl_init"
        /\ UNCHANGED << device, vgic_fd, new_result, live, attempt_err >>
    /\ UNCHANGED << variant, vcpu_count, attr_idx, result, created, attempts,
                    instantiated >>
    /\ UNCHANGED avars

\* finalize_device: set_device_attribute(fd, KVM_DEV_ARM_VGIC_GRP_NR_IRQS, 0,
\*                                       &nr_irqs, 0)?
FinalizeNrIrqs ==
    /\ pc = "finalize_nr_irqs"
    /\ \E k \in KernelOutcomes :
        LET r == SetDeviceAttribute("GRP_NR_IRQS", k) IN
        /\ calls' = Append(calls, AttrCall(variant, device.fd, "GRP_NR_IRQS",
                              "0", NrIrqs, 0, k))
        /\ IF r.status = "Ok"
           THEN /\ pc' = "finalize_ctrl_init"
                /\ UNCHANGED << device, vgic_fd, new_result, live, attempt_err >>
           ELSE NewFails(r.error)
    /\ UNCHANGED << variant, vcpu_count, attr_idx, result, created, attempts,
                    instantiated >>
    /\ UNCHANGED avars

\* variation: new() returns Ok(device) whatever control-init returned
FinalizeCtrlInit_NoCheck ==
    /\ pc = "finalize_ctrl_init"
    /\ \E k \in KernelOutcomes :
        /\ calls' = Append(calls, AttrCall(variant, device.fd, "GRP_CTRL",
                              "CTRL_INIT", 0, 0, k))
        /\ new_result' = Ok(device)
        /\ pc' = "new_returned"
        /\ UNCHANGED << device, vgic_fd, live, attempt_err >>
    /\ UNCHANGED << variant, vcpu_count, attr_idx, result, created, attempts,
                    instantiated >>
    /\ UNCHANGED avars

\* finalize_device: set_device_attribute(fd, KVM_DEV_ARM_VGIC_GRP_CTRL,
\*                                       KVM_DEV_ARM_VGIC_CTRL_INIT, 0, 0)?
\* and then new(): Ok(device)
FinalizeCtrlInit ==
    /\ pc = "finalize_ctrl_init"
    /\ \E k \in KernelOutcomes :
        LET r == SetDeviceAttribute("GRP_CTRL", k) IN
        /\ calls' = Append(calls, AttrCall(variant, device.fd, "GRP_CTRL",
                              "CTRL_INIT", 0, 0, k))
        /\ IF r.status = "Ok"
           THEN /\ new_result' = Ok(device)
                /\ pc' = "new_returned"
                /\ UNCHANGED << device, vgic_fd, live, attempt_err >>
           ELSE NewFails(r.error)
    /\ UNCHANGED << variant, vcpu_count, attr_idx, result, created, attempts,
                    instantiated >>
    /\ UNCHANGED avars

\* variation: the second constructor runs whatever the first returned
OrElseFallback_Always ==
    /\ pc = "new_returned"
    /\ variant = FirstVariant
    /\ EnterNew(FallbackVariant)
    /\ UNCHANGED << vcpu_count, result, live, created, calls, attempt_err,
                    instantiated >>
    /\ UNCHANGED avars

\* create_gic: GICv3::new(..).or_else(|_| GICv2::new(..)), the closure runs
OrElseFallback ==
    /\ pc = "new_returned"
    /\ new_result.status = "Err"
    /\ variant = FirstVariant
    /\ EnterNew(FallbackVariant)
    /\ UNCHANGED << vcpu_count, result, live, created, calls, attempt_err,
                    instantiated >>
    /\ UNCHANGED avars

\* variation: when both attempts fail the first error is the one returned
CreateGicReturn_FirstErr ==
    /\ pc = "new_returned"
    /\ \/ new_result.status = "Ok"
       \/ variant = FallbackVariant
    /\ result' = IF new_result.status = "Err"
                    THEN Err(attempt_err[FirstVariant]) ELSE new_result
    /\ pc' = "done"
    /\ UNCHANGED << variant, vcpu_count, vgic_fd, device, attr_idx, new_result,
                    live, created, calls, attempts, attempt_err,
                    instantiated >>
    /\ UNCHANGED avars

\* create_gic returns: the Ok of either attempt, or the Err of the closure
CreateGicReturn ==
    /\ pc = "new_returned"
    /\ \/ new_result.status = "Ok"
       \/ variant = FallbackVariant
    /\ result' = new_result
    /\ pc' = "done"
    /\ UNCHANGED << variant, vcpu_count, vgic_fd, device, attr_idx, new_result,
                    live, created, calls, attempts, attempt_err,
                    instantiated >>
    /\ UNCHANGED avars

GicNext ==
    \/ CreateGic
    \/ InitDevice
    \/ CreateDevice
    \/ InitDeviceAttributes
    \/ FinalizeNrIrqs
    \/ FinalizeCtrlInit
    \/ OrElseFallback
    \/ CreateGicReturn


(***************************************************************************)
(* Device activation protocol: the devices, their event sources and the    *)
(* event manager's subscriber registry.                                    *)
(***************************************************************************)
Devices == {1, 2}

\* the subscriber handle the event manager holds for device d
Handle(d) == d
NoHandle == 0

\* activate_fd().as_raw_fd() of device d
ActivateFd(d) == 10 * d

\* the fds of the event sources device d may want monitored once activated
InterestFds(d) == {10 * d + 1, 10 * d + 2}

Fds == UNION { {ActivateFd(d)} \cup InterestFds(d) : d \in Devices }

\* the interest lists device d may return: no fd twice, the activation fd
\* is not part of the list of an activated device
InterestLists(d) ==
    { << >> } \cup { << f >> : f \in InterestFds(d) }
    \cup { p \in InterestFds(d) \X InterestFds(d) : p[1] # p[2] }


\* a registry holding exactly the activation fds of the devices in R
RegistryOf(R) ==
    [f \in Fds |-> IF \E d \in R : f = ActivateFd(d)
                   THEN Handle(CHOOSE d \in R : f = ActivateFd(d))
                   ELSE NoHandle]

\* devices are created Inactive; a device is normally registered under its
\* activation fd, R is the set of those that were
ActInit ==
    /\ \E R \in SUBSET Devices : registry = RegistryOf(R)
    /\ evt = [d \in Devices |-> 0]
    /\ interest \in [Devices -> UNION { InterestLists(d) : d \in Devices }]
    /\ \A d \in Devices : interest[d] \in InterestLists(d)
    /\ apc = "idle"
    /\ self = 0
    /\ self_subscriber = NoHandle
    /\ idx = 0
    /\ ncalls = 0
    /\ log = << >>
    /\ reg_at_call = registry
    /\ returned = "none"
    /\ unregistered = {}
    /\ refire = FALSE
    /\ unreg_failed = {}
    /\ retry = FALSE

\* the activation side while only the GIC is being constructed
ActQuiet ==
    /\ registry = RegistryOf(Devices)
    /\ evt = [d \in Devices |-> 0]
    /\ interest = [d \in Devices |-> << 10 * d + 1, 10 * d + 2 >>]
    /\ apc = "idle"
    /\ self = 0
    /\ self_subscriber = NoHandle
    /\ idx = 0
    /\ ncalls = 0
    /\ log = << >>
    /\ reg_at_call = registry
    /\ returned = "none"
    /\ unregistered = {}
    /\ refire = FALSE
    /\ unreg_failed = {}
    /\ retry = FALSE

\* one logged operation
Op(op, fd, ok) == [op |-> op, fd |-> fd, ok |-> ok]

\* EventManager::subscriber(fd): Ok(handle) when fd is registered
Subscriber(reg, fd) ==
    IF reg[fd] # NoHandle THEN [ok |-> TRUE, handle |-> reg[fd]]
                          ELSE [ok |-> FALSE, handle |-> NoHandle]

\* EventManager::register(fd, event, subscriber): the registries it may
\* leave and whether it returned Ok; an fd that is already registered is
\* refused, and the registry may refuse any registration
Register(reg, fd, h) ==
    { [ok |-> FALSE, reg |-> reg] } \cup
    ( IF reg[fd] = NoHandle
      THEN { [ok |-> TRUE, reg |-> [reg EXCEPT ![fd] = h]] }
      ELSE { } )

\* EventManager::unregister(fd): Ok removes the entry; an fd that is not
\* registered is refused; when the registry fails on a registered fd the
\* entry may or may not be left behind
Unregister(reg, fd) ==
    IF reg[fd] = NoHandle
    THEN { [ok |-> FALSE, reg |-> reg] }
    ELSE { [ok |-> TRUE, reg |-> [reg EXCEPT ![fd] = NoHandle]],
           [ok |-> FALSE, reg |-> reg],
           [ok |-> FALSE, reg |-> [reg EXCEPT ![fd] = NoHandle]] }

\* the guest starts the device: the activation eventfd is written
Signal(d) ==
    /\ evt[d] < MaxSignal
    /\ evt' = [evt EXCEPT ![d] = evt[d] + 1]
    /\ UNCHANGED << registry, interest, apc, self, self_subscriber, idx,
                    ncalls, log, reg_at_call, returned, unregistered,
                    refire, unreg_failed, retry >>
    /\ UNCHANGED gvars

\* process_activate_event(&self, event_manager) is entered for device d
ProcessActivateEvent(d) ==
    /\ apc = "idle"
    /\ ncalls < MaxCalls
    /\ ncalls' = ncalls + 1
    /\ self' = d
    /\ self_subscriber' = NoHandle
    /\ idx' = 0
    /\ log' = << >>
    /\ reg_at_call' = registry
    /\ returned' = "none"
    /\ refire' = (d \in unregistered)
    /\ retry' = (d \in unreg_failed)
    /\ apc' = "read"
    /\ UNCHANGED << registry, evt, interest, unregistered, unreg_failed >>
    /\ UNCHANGED gvars

\* variation: a failed read of the activation eventfd ends the function
ReadActivateFd_ReturnOnErr ==
    /\ apc = "read"
    /\ log' = Append(log, Op("read", ActivateFd(self), evt[self] > 0))
    /\ evt' = [evt EXCEPT ![self] = 0]
    /\ apc' = IF evt[self] > 0 THEN "subscriber" ELSE "idle"
    /\ returned' = IF evt[self] > 0 THEN returned ELSE "aborted"
    /\ UNCHANGED << registry, interest, self, self_subscriber, idx, ncalls,
                    reg_at_call, unregistered, refire,
                    unreg_failed, retry >>
    /\ UNCHANGED gvars

\* if let Err(e) = self.activate_fd().read() { error!(..) }
\* the read fails when the counter is zero; the error is only logged
ReadActivateFd ==
    /\ apc = "read"
    /\ log' = Append(log, Op("read", ActivateFd(self), evt[self] > 0))
    /\ evt' = [evt EXCEPT ![self] = 0]
    /\ apc' = "subscriber"
    /\ UNCHANGED << registry, interest, self, self_subscriber, idx, ncalls,
                    reg_at_call, returned, unregistered, refire,
                    unreg_failed, retry >>
    /\ UNCHANGED gvars

\* variation: the handle is looked up under one fixed fd for every device
LookupKey_Fixed == ActivateFd(1)

\* let activate_fd = self.activate_fd().as_raw_fd(); the key of the lookup
LookupKey == ActivateFd(self)

\* variation: a failed lookup is logged but the function does not return
LookupSubscriber_NoReturn ==
    /\ apc = "subscriber"
    /\ LET r == Subscriber(registry, LookupKey) IN
        /\ log' = Append(log, Op("subscriber", LookupKey, r.ok))
        /\ self_subscriber' = r.handle
        /\ idx' = 1
        /\ apc' = IF Len(interest[self]) = 0 THEN "unregister" ELSE "register"
        /\ UNCHANGED returned
    /\ UNCHANGED << registry, evt, interest, self, ncalls, reg_at_call,
                    unregistered, refire,
                    unreg_failed, retry >>
    /\ UNCHANGED gvars

\* variation: a failed lookup skips the registrations but still goes on to
\* unregister the activation fd
LookupSubscriber_SkipToUnregister ==
    /\ apc = "subscriber"
    /\ LET r == Subscriber(registry, LookupKey) IN
        /\ log' = Append(log, Op("subscriber", LookupKey, r.ok))
        /\ self_subscriber' = r.handle
        /\ idx' = 1
        /\ apc' = IF r.ok /\ Len(interest[self]) # 0 THEN "register"
                                                     ELSE "unregister"
        /\ UNCHANGED returned
    /\ UNCHANGED << registry, evt, interest, self, ncalls, reg_at_call,
                    unregistered, refire,
                    unreg_failed, retry >>
    /\ UNCHANGED gvars

\* variation: the function returns as well when the device has already gone
\* through its unregistration once, whatever the registry holds
LookupSubscriber_ActivatedGuard ==
    /\ apc = "subscriber"
    /\ LET r == Subscriber(registry, LookupKey)
           once == self \in (unregistered \cup unreg_failed) IN
        /\ log' = Append(log, Op("subscriber", LookupKey, r.ok))
        /\ IF r.ok /\ ~once
           THEN /\ self_subscriber' = r.handle
                /\ idx' = 1
                /\ apc' = IF Len(interest[self]) = 0 THEN "unregister"
                                                    ELSE "register"
                /\ UNCHANGED returned
           ELSE /\ returned' = "aborted"
                /\ apc' = "idle"
                /\ UNCHANGED << self_subscriber, idx >>
    /\ UNCHANGED << registry, evt, interest, self, ncalls, reg_at_call,
                    unregistered, refire, unreg_failed, retry >>
    /\ UNCHANGED gvars

\* let self_subscriber = match event_manager.subscriber(activate_fd) {
\*     Ok(subscriber) => subscriber, Err(e) => { error!(..); return; } };
LookupSubscriber ==
    /\ apc = "subscriber"
    /\ LET r == Subscriber(registry, LookupKey) IN
        /\ log' = Append(log, Op("subscriber", LookupKey, r.ok))
        /\ IF r.ok
           THEN /\ self_subscriber' = r.handle
                /\ idx' = 1
                /\ apc' = IF Len(interest[self]) = 0 THEN "unregister"
                                                    ELSE "register"
                /\ UNCHANGED returned
           ELSE /\ returned' = "aborted"
                /\ apc' = "idle"
                /\ UNCHANGED << self_subscriber, idx >>
    /\ UNCHANGED << registry, evt, interest, self, ncalls, reg_at_call,
                    unregistered, refire,
                    unreg_failed, retry >>
    /\ UNCHANGED gvars

\* variation: the activation fd is unregistered inside the loop body
RegisterInterest_UnregisterInside ==
    /\ apc = "register"
    /\ idx <= Len(interest[self])
    /\ \E r \in Register(registry, interest[self][idx], self_subscriber) :
        \E u \in Unregister(r.reg, ActivateFd(self)) :
            /\ registry' = u.reg
            /\ log' = log \o << Op("register", interest[self][idx], r.ok),
                                Op("unregister", ActivateFd(self), u.ok) >>
    /\ idx' = idx + 1
    /\ apc' = IF idx = Len(interest[self]) THEN "unregister" ELSE "register"
    /\ UNCHANGED << evt, interest, self, self_subscriber, ncalls, reg_at_call,
                    returned, unregistered, refire,
                    unreg_failed, retry >>
    /\ UNCHANGED gvars

\* variation: the first failed registration ends the loop
RegisterInterest_StopOnErr ==
    /\ apc = "register"
    /\ idx <= Len(interest[self])
    /\ \E r \in Register(registry, interest[self][idx], self_subscriber) :
        /\ registry' = r.reg
        /\ log' = Append(log, Op("register", interest[self][idx], r.ok))
        /\ apc' = IF idx = Len(interest[self]) \/ ~r.ok THEN "unregister"
                                                        ELSE "register"
    /\ idx' = idx + 1
    /\ UNCHANGED << evt, interest, self, self_subscriber, ncalls, reg_at_call,
                    returned, unregistered, refire,
                    unreg_failed, retry >>
    /\ UNCHANGED gvars

\* variation: the result of register is unwrapped, a refusal panics
RegisterInterest_Unwrap ==
    /\ apc = "register"
    /\ idx <= Len(interest[self])
    /\ \E r \in Register(registry, interest[self][idx], self_subscriber) :
        /\ registry' = r.reg
        /\ log' = Append(log, Op("register", interest[self][idx], r.ok))
        /\ apc' = IF ~r.ok THEN "panicked"
                  ELSE IF idx = Len(interest[self]) THEN "unregister"
                  ELSE "register"
    /\ idx' = idx + 1
    /\ UNCHANGED << evt, interest, self, self_subscriber, ncalls, reg_at_call,
                    returned, unregistered, refire, unreg_failed, retry >>
    /\ UNCHANGED gvars

\* variation: the loop is left after its first iteration
RegisterInterest_Break ==
    /\ apc = "register"
    /\ idx <= Len(interest[self])
    /\ \E r \in Register(registry, interest[self][idx], self_subscriber) :
        /\ registry' = r.reg
        /\ log' = Append(log, Op("register", interest[self][idx], r.ok))
    /\ idx' = idx + 1
    /\ apc' = "unregister"
    /\ UNCHANGED << evt, interest, self, self_subscriber, ncalls, reg_at_call,
                    returned, unregistered, refire,
                    unreg_failed, retry >>
    /\ UNCHANGED gvars

\* for event in interest_list { event_manager.register(event.data() as i32,
\*     event, self_subscriber.clone()).unwrap_or_else(|e| error!(..)); }
RegisterInterest ==
    /\ apc = "register"
    /\ idx <= Len(interest[self])
    /\ \E r \in Register(registry, interest[self][idx], self_subscriber) :
        /\ registry' = r.reg
        /\ log' = Append(log, Op("register", interest[self][idx], r.ok))
    /\ idx' = idx + 1
    /\ apc' = IF idx = Len(interest[self]) THEN "unregister" ELSE "register"
    /\ UNCHANGED << evt, interest, self, self_subscriber, ncalls, reg_at_call,
                    returned, unregistered, refire,
                    unreg_failed, retry >>
    /\ UNCHANGED gvars

\* variation: the fd that is unregistered is the one of the last interest
\* entry instead of the activation fd
UnregisterActivateFd_LastEvent ==
    /\ apc = "unregister"
    /\ LET key == IF interest[self] = << >> THEN ActivateFd(self)
                  ELSE interest[self][Len(interest[self])] IN
       \E r \in Unregister(registry, key) :
        /\ registry' = r.reg
        /\ log' = Append(log, Op("unregister", key, r.ok))
        /\ unregistered' = IF r.ok THEN unregistered \cup {self}
                                   ELSE unregistered
        /\ unreg_failed' = IF r.ok THEN unreg_failed
                                   ELSE unreg_failed \cup {self}
    /\ returned' = "completed"
    /\ apc' = "idle"
    /\ UNCHANGED << evt, interest, self, self_subscriber, idx, ncalls,
                    reg_at_call, refire, retry >>
    /\ UNCHANGED gvars

\* event_manager.unregister(activate_fd).unwrap_or_else(|e| error!(..));
\* and the function returns
UnregisterActivateFd ==
    /\ apc = "unregister"
    /\ \E r \in Unregister(registry, ActivateFd(self)) :
        /\ registry' = r.reg
        /\ log' = Append(log, Op("unregister", ActivateFd(self), r.ok))
        /\ unregistered' = IF r.ok THEN unregistered \cup {self}
                                   ELSE unregistered
        /\ unreg_failed' = IF r.ok THEN unreg_failed
                                   ELSE unreg_failed \cup {self}
    /\ returned' = "completed"
    /\ apc' = "idle"
    /\ UNCHANGED << evt, interest, self, self_subscriber, idx, ncalls,
                    reg_at_call, refire, retry >>
    /\ UNCHANGED gvars

ActNext ==
    \/ \E d \in Devices : Signal(d)
    \/ \E d \in Devices : ProcessActivateEvent(d)
    \/ ReadActivateFd
    \/ LookupSubscriber
    \/ RegisterInterest
    \/ UnregisterActivateFd

(***************************************************************************)
(* The specifications: Spec runs create_gic, ActSpec runs the activation   *)
(* protocol; the protocols share no state.                                 *)
(***************************************************************************)
vars == << gvars, avars >>

Init == GicInit /\ ActQuiet
Next == GicNext
Spec == Init /\ [][Next]_vars

ActSpecInit == GicInit /\ ActInit
ActSpecNext == ActNext
ActSpec == ActSpecInit /\ [][ActSpecNext]_vars

\* the body of process_activate_event is straight-line synchronous code on
\* the reactor thread: once entered, each of its steps is eventually taken
ActFairness ==
    /\ WF_vars(ReadActivateFd)
    /\ WF_vars(LookupSubscriber)
    /\ WF_vars(RegisterInterest)
    /\ WF_vars(UnregisterActivateFd)
ActLiveSpec == ActSpec /\ ActFairness
(***************************************************************************)
(* Properties of the GIC lifecycle manager.                                *)
(***************************************************************************)
\* indices of the kernel calls issued for variant v
CallsOf(v) == { i \in 1..Len(calls) : calls[i].variant = v }
IsNrIrqs(c) == c.op = "set_device_attr" /\ c.group = "GRP_NR_IRQS"
IsCtrlInit(c) == c.op = "set_device_attr" /\ c.group = "GRP_CTRL"
                    /\ c.attr = "CTRL_INIT"
\* the attempt for variant v has returned an error
Failed(v) == attempt_err[v] # NoError
\* the error a failed kernel call is turned into
ErrorOfCall(c) == IF c.op = "create_device" THEN CreateGIC(c.errno)
                  ELSE DeviceAttribute(c.errno, TRUE, c.group)

\* C1: GICv3 is attempted first; GICv2 is attempted if and only if the GICv3
\* attempt failed; after a successful GICv3 attempt no GICv2 kernel call is
\* issued; each variant is attempted at most once per create_gic call.
C1_NegotiationOrder ==
    /\ attempts # << >> => attempts[1] = "GICv3"
    /\ Len(attempts) <= 2
    /\ \A i, j \in 1..Len(attempts) : attempts[i] = attempts[j] => i = j
    /\ ("GICv2" \in { attempts[i] : i \in 1..Len(attempts) }) => Failed("GICv3")
    /\ CallsOf("GICv2") # {} => Failed("GICv3")
    /\ pc = "done" =>
         (Failed("GICv3") <=> "GICv2" \in { attempts[i] : i \in 1..Len(attempts) })
    /\ (pc = "done" /\ ~Failed("GICv3")) => CallsOf("GICv2") = {}

\* C1 witness: create_gic returned after the fallback to GICv2 ran
C1_Witness ==
    /\ pc = "done"
    /\ attempts = << "GICv3", "GICv2" >>
    /\ CallsOf("GICv2") # {}

\* C2: when both attempts fail, create_gic returns the error of the GICv2
\* attempt (the error its last, failing kernel call was turned into); the
\* error of the GICv3 attempt is not the one returned.
C2_LastErrorReturned ==
    (pc = "done" /\ Failed("GICv3") /\ Failed("GICv2")) =>
        /\ result.status = "Err"
        /\ result.error = attempt_err["GICv2"]
        /\ calls # << >>
        /\ calls[Len(calls)].variant = "GICv2"
        /\ ~calls[Len(calls)].ok
        /\ result.error = ErrorOfCall(calls[Len(calls)])

\* C2 witness: both attempts failed, at different steps and with different
\* kernel errors
C2_Witness ==
    /\ pc = "done"
    /\ Failed("GICv3") /\ Failed("GICv2")
    /\ attempt_err["GICv3"].kind # attempt_err["GICv2"].kind
    /\ attempt_err["GICv3"].errno # attempt_err["GICv2"].errno

\* every kernel call of the GICv2 protocol was issued and succeeded
V2StepsSucceeded ==
    /\ \A i \in CallsOf("GICv2") : calls[i].ok
    /\ \E i \in CallsOf("GICv2") : IsCtrlInit(calls[i])

\* C3: create_gic returns an error iff both attempts fail; a successful GICv3
\* attempt returns the GICv3 device; a failed GICv3 attempt followed by a
\* GICv2 protocol whose every step succeeds returns the GICv2 device.
C3_ErrorIffBothFail ==
    pc = "done" =>
        /\ result.status \in {"Ok", "Err"}
        /\ (result.status = "Err") <=> (Failed("GICv3") /\ Failed("GICv2"))
        /\ ~Failed("GICv3") =>
              (result.status = "Ok" /\ result.device.variant = "GICv3")
        /\ (Failed("GICv3") /\ V2StepsSucceeded) =>
              /\ result.status = "Ok"
              /\ result.device.variant = "GICv2"
              /\ FdtCompatibility(result.device.variant) = "arm,gic-400"
              /\ FdtMaintIrq(result.device.variant) = 8

\* C3 witness: GICv3 was refused at device creation and GICv2 was returned
C3_Witness ==
    /\ pc = "done"
    /\ attempt_err["GICv3"].kind = "CreateGIC"
    /\ result.status = "Ok"
    /\ result.device.variant = "GICv2"

\* C4: on every device, control-init is preceded by a successful IRQ-count
\* call, and a failed IRQ-count call is never followed by control-init.
C4_FinalizeOrder ==
    /\ \A i \in 1..Len(calls) : IsCtrlInit(calls[i]) =>
          \E j \in 1..(i - 1) : /\ IsNrIrqs(calls[j])
                                /\ calls[j].fd = calls[i].fd
                                /\ calls[j].ok
    /\ \A j \in 1..Len(calls) : (IsNrIrqs(calls[j]) /\ ~calls[j].ok) =>
          \A i \in 1..Len(calls) :
              ~(IsCtrlInit(calls[i]) /\ calls[i].fd = calls[j].fd)

\* C4 witness: IRQ-count failed on one device, control-init was issued on
\* another
C4_Witness ==
    /\ \E j \in 1..Len(calls) : IsNrIrqs(calls[j]) /\ ~calls[j].ok
    /\ \E i \in 1..Len(calls) : IsCtrlInit(calls[i])

\* the protocol of variant v, as the kernel calls it consists of
Protocol(v) ==
    << [op |-> "create_device", group |-> "none", attr |-> "none"] >>
    \o [ i \in 1..Len(DeviceAttributes(v)) |->
           [op |-> "set_device_attr", group |-> "GRP_ADDR",
            attr |-> DeviceAttributes(v)[i]] ]
    \o << [op |-> "set_device_attr", group |-> "GRP_NR_IRQS", attr |-> "0"],
          [op |-> "set_device_attr", group |-> "GRP_CTRL", attr |-> "CTRL_INIT"] >>

\* the kernel calls that name device fd f, in the order they were issued
RECURSIVE CallsOnFd(_, _)
CallsOnFd(cs, f) ==
    IF cs = << >> THEN << >>
    ELSE IF Head(cs).fd = f THEN << Head(cs) >> \o CallsOnFd(Tail(cs), f)
         ELSE CallsOnFd(Tail(cs), f)

\* C8: the device create_gic returns went through the whole protocol of its
\* variant, in order and with every step successful; no attribute is set on
\* a device after its control-init call.
C8_OnlyFinalizedDeviceReturned ==
    /\ (pc = "done" /\ result.status = "Ok") =>
          LET d == result.device
              cs == CallsOnFd(calls, d.fd) IN
          /\ d # NoDevice
          /\ d.fd \in live
          /\ Len(cs) = Len(Protocol(d.variant))
          /\ \A i \in 1..Len(cs) :
                /\ cs[i].ok
                /\ cs[i].variant = d.variant
                /\ cs[i].op = Protocol(d.variant)[i].op
                /\ cs[i].group = Protocol(d.variant)[i].group
                /\ cs[i].attr = Protocol(d.variant)[i].attr
    /\ \A i \in 1..Len(calls) : IsCtrlInit(calls[i]) =>
          \A j \in (i + 1)..Len(calls) :
              ~(calls[j].op = "set_device_attr" /\ calls[j].fd = calls[i].fd)

\* C8 witness: a device was returned after an earlier attempt was aborted
\* during finalization
C8_Witness ==
    /\ pc = "done"
    /\ result.status = "Ok"
    /\ attempt_err["GICv3"].group = "GRP_CTRL"

\* C9 as stated: the IRQ-count value is the IRQ ceiling minus 32
C9_ValueIsCeilingMinusReserved ==
    \A i \in 1..Len(calls) : IsNrIrqs(calls[i]) =>
        calls[i].value = IRQ_MAX - IRQ_BASE

\* C9 amended: the value passed with the IRQ-count attribute is the IRQ
\* ceiling itself, nothing is subtracted; the usable SPIs are the lines from
\* 32 up to that value.
C9_ValueIsCeiling ==
    \A i \in 1..Len(calls) : IsNrIrqs(calls[i]) =>
        /\ calls[i].value = IRQ_MAX
        /\ calls[i].value - IRQ_BASE = IRQ_MAX - 32
        /\ calls[i].attr = "0"
        /\ calls[i].flags = 0

\* C9 witness: the IRQ-count attribute was set on a device
C9_Witness ==
    \E i \in 1..Len(calls) : IsNrIrqs(calls[i]) /\ calls[i].ok

\* C10: when the kernel refuses to create the device of a variant, the
\* attempt ends at once with CreateGIC carrying the kernel error, no device
\* value is built and no attribute is set for that variant.
C10_CreateFailureIsTerminal ==
    \A i \in 1..Len(calls) :
        (calls[i].op = "create_device" /\ ~calls[i].ok) =>
            LET v == calls[i].variant IN
            /\ attempt_err[v] = CreateGIC(calls[i].errno)
            /\ v \notin instantiated
            /\ \A j \in CallsOf(v) : j = i
            /\ (i = Len(calls) /\ variant = v) =>
                  /\ pc \in {"new_returned", "done"}
                  /\ new_result = Err(CreateGIC(calls[i].errno))
            /\ device.variant # v

\* C10 witness: the kernel refused the GICv2 device after the GICv3 attempt
\* had got as far as setting attributes
C10_Witness ==
    /\ pc = "new_returned"
    /\ variant = "GICv2"
    /\ ~calls[Len(calls)].ok
    /\ calls[Len(calls)].op = "create_device"
    /\ "GICv3" \in instantiated
(***************************************************************************)
(* Properties of the device activation protocol.                           *)
(***************************************************************************)
\* positions of the operations of kind op in the log of the current call
OpsOf(op) == { i \in 1..Len(log) : log[i].op = op }
\* the current call has returned
Returned == apc = "idle" /\ returned # "none"
\* device d was Inactive when the current call began: its activation fd was
\* registered under its handle and none of its other fds was registered
InactiveAtCall(d) ==
    /\ reg_at_call[ActivateFd(d)] = Handle(d)
    /\ \A f \in InterestFds(d) : reg_at_call[f] = NoHandle
\* every registry operation of the current call returned Ok
RegistryNeverFailed ==
    \A i \in 1..Len(log) : log[i].op # "read" => log[i].ok

\* C5: a call for an Inactive device during which no registry operation
\* fails reads the activation eventfd once, registers every interest-list
\* entry once under the handle found for the activation fd, unregisters the
\* activation fd once; afterwards every interest-list fd maps to the
\* device's handle and the activation fd is absent.
C5_ActivationTransition ==
    (Returned /\ InactiveAtCall(self) /\ RegistryNeverFailed) =>
        /\ returned = "completed"
        /\ Cardinality(OpsOf("read")) = 1
        /\ \A i \in OpsOf("read") : log[i].fd = ActivateFd(self)
        /\ Cardinality(OpsOf("subscriber")) = 1
        /\ Cardinality(OpsOf("register")) = Len(interest[self])
        /\ \A k \in 1..Len(interest[self]) :
              Cardinality({ i \in OpsOf("register") :
                              log[i].fd = interest[self][k] }) = 1
        /\ Cardinality(OpsOf("unregister")) = 1
        /\ \A i \in OpsOf("unregister") : log[i].fd = ActivateFd(self)
        /\ \A k \in 1..Len(interest[self]) :
              /\ registry[interest[self][k]] = Handle(self)
              /\ registry[interest[self][k]] = reg_at_call[ActivateFd(self)]
        /\ registry[ActivateFd(self)] = NoHandle

\* C5 witness: activation fd 10, interest list 11, 12; after the call 11 and
\* 12 map to the handle of the device and 10 is absent
C5_Witness ==
    /\ Returned /\ InactiveAtCall(self) /\ RegistryNeverFailed
    /\ self = 1
    /\ interest[1] = << 11, 12 >>
    /\ registry[11] = Handle(1) /\ registry[12] = Handle(1)
    /\ registry[10] = NoHandle

\* C6: a call made after the activation fd of the device was unregistered
\* with Ok finds no subscriber under the activation fd, returns at the
\* lookup and issues no register and no unregister call; the registry is
\* the same before and after.
C6_RefireIsHarmless ==
    (self # 0 /\ refire) =>
        /\ reg_at_call[ActivateFd(self)] = NoHandle
        /\ apc \notin {"register", "unregister"}
        /\ OpsOf("register") = {}
        /\ OpsOf("unregister") = {}
        /\ registry = reg_at_call
        /\ \A i \in OpsOf("subscriber") : ~log[i].ok
        /\ apc = "idle" =>
              /\ returned = "aborted"
              /\ log[Len(log)].op = "subscriber"

\* C6 witness: the second call for an activated device has returned
C6_Witness ==
    /\ self # 0 /\ refire
    /\ Returned
    /\ \A k \in 1..Len(interest[self]) :
          registry[interest[self][k]] = Handle(self)
    /\ interest[self] # << >>

\* C7: when the lookup of the handle fails the call returns at once: no
\* register call, no unregister call, the registry (and with it the state
\* of the device) is as it was when the call began.
C7_LookupFailureAborts ==
    (\E i \in OpsOf("subscriber") : ~log[i].ok) =>
        /\ OpsOf("register") = {}
        /\ OpsOf("unregister") = {}
        /\ registry = reg_at_call
        /\ log[Len(log)].op = "subscriber"
        /\ apc = "idle"
        /\ returned = "aborted"
        /\ \A f \in InterestFds(self) : registry[f] = reg_at_call[f]

\* C7 witness: the first call for a device that was never registered under
\* its activation fd has returned
C7_Witness ==
    /\ Returned
    /\ ~refire
    /\ returned = "aborted"
    /\ interest[self] # << >>
    /\ \A f \in InterestFds(self) : registry[f] = NoHandle

(***************************************************************************)
(* Further properties of the GIC lifecycle manager.                        *)
(***************************************************************************)
\* C11: a rejected attribute-set call ends the attempt with DeviceAttribute
\* carrying the kernel error, is_set = TRUE and the group of the call that
\* failed; the call is not repeated and no later attribute call names that
\* device.
C11_AttributeFailure ==
    \A i \in 1..Len(calls) :
        (calls[i].op = "set_device_attr" /\ ~calls[i].ok) =>
            LET c == calls[i] IN
            /\ attempt_err[c.variant] =
                  [kind |-> "DeviceAttribute", errno |-> c.errno,
                   is_set |-> TRUE, group |-> c.group]
            /\ IsNrIrqs(c) => attempt_err[c.variant].group = "GRP_NR_IRQS"
            /\ IsCtrlInit(c) => attempt_err[c.variant].group = "GRP_CTRL"
            /\ \A j \in (i + 1)..Len(calls) :
                  /\ calls[j].fd # c.fd
                  /\ calls[j].variant # c.variant
            /\ (i = Len(calls) /\ variant = c.variant) =>
                  /\ pc \in {"new_returned", "done"}
                  /\ new_result.status = "Err"
                  /\ new_result.error = attempt_err[c.variant]

\* C11 witness: IRQ-count was rejected for GICv3, control-init for GICv2
C11_Witness ==
    /\ pc = "done"
    /\ attempt_err["GICv3"].group = "GRP_NR_IRQS"
    /\ attempt_err["GICv2"].group = "GRP_CTRL"
    /\ attempt_err["GICv2"].is_set

\* C12: the device of either attempt is built with the vcpu_count handed to
\* create_gic, which is the same for the GICv3 attempt and the GICv2
\* fallback; the returned device carries it.
C12_VcpuCountPreserved ==
    /\ [](/\ (pc # "idle") => vcpu_count \in 1..MaxVcpu
          /\ (device # NoDevice) => device.vcpu_count = vcpu_count
          /\ (new_result.status = "Ok") =>
                new_result.device.vcpu_count = vcpu_count
          /\ (pc = "done" /\ result.status = "Ok") =>
                /\ result.device.vcpu_count = vcpu_count
                /\ result.device.vcpu_count >= 1)
    /\ [][(pc # "idle") => vcpu_count' = vcpu_count]_vars

\* C12 witness: the GICv2 fallback returned a device for more than one vCPU
C12_Witness ==
    /\ pc = "done"
    /\ result.status = "Ok"
    /\ result.device.variant = "GICv2"
    /\ result.device.vcpu_count = 2

\* C20: at most one kernel device fd is open at any moment; the fd of a
\* failed attempt is closed before the next creation request; when
\* create_gic returns an error no fd is left open, and when it returns a
\* device the only open fd is that device's.
C20_OneLiveHandle ==
    /\ Cardinality(live) <= 1
    /\ (pc \in {"init_device", "new_returned"} /\ new_result.status # "Ok")
          => live = {}
    /\ (pc = "done" /\ result.status = "Err") => live = {}
    /\ (pc = "done" /\ result.status = "Ok") => live = {result.device.fd}
    /\ (device # NoDevice) => live = {device.fd}

\* C20 witness: the GICv3 device had been created and configured when its
\* finalization failed, and the GICv2 device is now open
C20_Witness ==
    /\ variant = "GICv2"
    /\ attempt_err["GICv3"].kind = "DeviceAttribute"
    /\ created = 2
    /\ live = {2}

(***************************************************************************)
(* Further properties of the device activation protocol.                   *)
(***************************************************************************)
\* the fds of the entries of the interest list of device d
InterestOf(d) == { interest[d][k] : k \in 1..Len(interest[d]) }
\* the fds whose registration returned Ok during the current call
RegisteredOk == { log[i].fd : i \in { j \in OpsOf("register") : log[j].ok } }
\* the registrations of the current call are those of the whole interest
\* list, one per entry and in the order of the list, right after the lookup
AllRegistrationsAttempted ==
    /\ Cardinality(OpsOf("register")) = Len(interest[self])
    /\ \A k \in 1..Len(interest[self]) :
          /\ Len(log) >= 2 + k
          /\ log[2 + k] = Op("register", interest[self][k], log[2 + k].ok)

\* C13: the activation fd is unregistered only after a registration was
\* attempted for every interest-list entry; from the lookup on, and after
\* the call when a registration succeeded, the handle of the device has a
\* registration in the registry.
C13_UnregisterLast ==
    /\ (apc = "register") => OpsOf("unregister") = {}
    /\ (apc = "unregister") =>
          (OpsOf("unregister") = {} /\ AllRegistrationsAttempted)
    /\ \A i \in OpsOf("unregister") :
          /\ i = Len(log)
          /\ AllRegistrationsAttempted
          /\ \A j \in OpsOf("register") : j < i
    /\ (apc \in {"register", "unregister"}) =>
          \E f \in Fds : registry[f] = self_subscriber
    /\ (Returned /\ returned = "completed" /\ RegisteredOk # {}) =>
          \E f \in Fds : registry[f] = self_subscriber

\* C13 witness: a transition with two registrations, one of them refused,
\* has unregistered its activation fd
C13_Witness ==
    /\ Returned /\ returned = "completed"
    /\ Len(interest[self]) = 2
    /\ Cardinality(RegisteredOk) = 1
    /\ log[Len(log)] = Op("unregister", ActivateFd(self), TRUE)
    /\ registry[ActivateFd(self)] = NoHandle

\* C14: after a refused registration the remaining entries are still
\* attempted and the activation fd is still unregistered; the interest fds
\* mapped to the handle at the end are those mapped before the call and
\* those whose registration succeeded, which for a device that was Inactive
\* is exactly the set whose registration succeeded.
C14_RegistrationFailureSkipped ==
    (Returned /\ returned = "completed") =>
        /\ AllRegistrationsAttempted
        /\ Len(log) = 3 + Len(interest[self])
        /\ log[Len(log)].op = "unregister"
        /\ log[Len(log)].fd = ActivateFd(self)
        /\ \A f \in InterestOf(self) :
              (registry[f] = self_subscriber) <=>
                  (reg_at_call[f] = self_subscriber \/ f \in RegisteredOk)
        /\ InactiveAtCall(self) =>
              { f \in InterestFds(self) : registry[f] = Handle(self) }
                  = RegisteredOk

\* C14 witness: of the entries 11 and 12 the first was refused, the second
\* is mapped to the handle
C14_Witness ==
    /\ Returned /\ returned = "completed"
    /\ InactiveAtCall(self)
    /\ self = 1
    /\ interest[1] = << 11, 12 >>
    /\ log[3] = Op("register", 11, FALSE)
    /\ log[4] = Op("register", 12, TRUE)
    /\ registry[11] = NoHandle /\ registry[12] = Handle(1)

\* the registry a call must leave, given the registry it began with and the
\* results of its registry operations, whatever the read returned
RegistryAsExpected ==
    \A f \in Fds :
        IF f \in RegisteredOk THEN registry[f] = self_subscriber
        ELSE IF f = ActivateFd(self) /\ OpsOf("unregister") # {}
             THEN IF \E i \in OpsOf("unregister") : log[i].ok
                  THEN registry[f] = NoHandle
                  ELSE registry[f] \in {reg_at_call[f], NoHandle}
             ELSE registry[f] = reg_at_call[f]

\* C15: the lookup, the registrations and the unregistration follow the read
\* of the activation eventfd whether it failed or not, and the registry the
\* call leaves depends on the registry operations alone.
C15_DrainFailureIgnored ==
    /\ (self # 0 /\ apc # "read") => (Len(log) >= 1 /\ log[1].op = "read")
    /\ (self # 0 /\ apc = "idle") =>
          /\ Len(log) >= 2
          /\ log[2] = Op("subscriber", ActivateFd(self),
                         reg_at_call[ActivateFd(self)] # NoHandle)
          /\ log[2].ok =>
                /\ returned = "completed"
                /\ AllRegistrationsAttempted
                /\ Cardinality(OpsOf("unregister")) = 1
    /\ (self # 0) => RegistryAsExpected

\* C15 witness: the read failed and the device was activated all the same
C15_Witness ==
    /\ Returned /\ returned = "completed"
    /\ ~log[1].ok
    /\ InactiveAtCall(self)
    /\ interest[self] # << >>
    /\ InterestOf(self) = RegisteredOk
    /\ registry[ActivateFd(self)] = NoHandle

C17_AlwaysReturns ==
    /\ [](apc \in {"idle", "read", "subscriber", "register", "unregister"})
    /\ [](apc = "idle" /\ self # 0 => returned \in {"aborted", "completed"})
    /\ (apc # "idle") ~> (apc = "idle" /\ returned \in {"aborted", "completed"})

\* C17 witness: the read, a registration and the unregistration all failed
\* and the call has returned
C17_Witness ==
    /\ Returned /\ returned = "completed"
    /\ ~log[1].ok
    /\ \E i \in OpsOf("register") : ~log[i].ok
    /\ \E i \in OpsOf("unregister") : ~log[i].ok
    /\ Len(interest[self]) = 2

\* the fds that belong to device d
FdsOf(d) == {ActivateFd(d)} \cup InterestFds(d)
\* the registry after every device was activated without a failure
ActivatedRegistry ==
    [f \in Fds |-> IF \E d \in Devices : f \in InterestOf(d)
                   THEN Handle(CHOOSE d \in Devices : f \in InterestOf(d))
                   ELSE NoHandle]

\* C18: a call for one device leaves the registrations of every other
\* device as they were; after each of two devices was activated once, in
\* either order, the entries of each device are those its own activation
\* produced and, when no registration failed, the registry is the same
\* whichever device went first.
C18_DevicesIndependent ==
    /\ (self # 0) =>
          \A o \in Devices \ {self} :
              \A f \in FdsOf(o) : registry[f] = reg_at_call[f]
    /\ (ncalls = 2 /\ Returned /\ unregistered = Devices
           /\ RegistryNeverFailed) =>
          /\ \A d \in Devices : registry[ActivateFd(d)] = NoHandle
          /\ \A f \in InterestOf(self) : registry[f] = Handle(self)
          /\ \A o \in Devices \ {self} :
                \A f \in InterestFds(o) :
                    registry[f] \in {NoHandle, Handle(o)}
          /\ (\A o \in Devices \ {self} :
                 \A f \in InterestOf(o) : reg_at_call[f] = Handle(o))
                => registry = ActivatedRegistry

\* C18 witness: device 2 was activated first, then device 1, both without a
\* failure, and each has registrations of its own
C18_Witness ==
    /\ ncalls = 2 /\ Returned /\ unregistered = Devices
    /\ RegistryNeverFailed
    /\ self = 1
    /\ interest[1] # << >> /\ interest[2] # << >>
    /\ registry = ActivatedRegistry

\* C18, the other order: device 1 was activated first, then device 2
C18_WitnessOtherOrder ==
    /\ ncalls = 2 /\ Returned /\ unregistered = Devices
    /\ RegistryNeverFailed
    /\ self = 2
    /\ interest[1] # << >> /\ interest[2] # << >>
    /\ registry = ActivatedRegistry

\* C19: the only keys a call registers are the fds of its interest list, the
\* only key it looks up or unregisters is its own activation fd, and every
\* registry entry under another fd is as it was when the call began, in
\* runs with failures as in runs without.
C19_OnlyOwnKeysTouched ==
    (self # 0) =>
        /\ \A i \in OpsOf("register") : log[i].fd \in InterestOf(self)
        /\ \A i \in OpsOf("unregister") : log[i].fd = ActivateFd(self)
        /\ \A i \in OpsOf("subscriber") : log[i].fd = ActivateFd(self)
        /\ \A f \in Fds \ (InterestOf(self) \cup {ActivateFd(self)}) :
              registry[f] = reg_at_call[f]
        /\ \A f \in InterestOf(self) :
              registry[f] \in {reg_at_call[f], self_subscriber}
        /\ registry[ActivateFd(self)] \in
              {reg_at_call[ActivateFd(self)], NoHandle}

\* C19 witness: a call with a refused registration and a failed unregister
\* has returned while the other device is still registered
C19_Witness ==
    /\ Returned /\ returned = "completed"
    /\ \E i \in OpsOf("register") : ~log[i].ok
    /\ \E i \in OpsOf("unregister") : ~log[i].ok
    /\ \E o \in Devices \ {self} : registry[ActivateFd(o)] = Handle(o)
====
